---- MODULE Spec2Model ----
(***************************************************************************)
(* Renewal Decision Engine: the offer store, the negotiation engine        *)
(* (analyse_tenant_response), the landlord decision route                  *)
(* (record_landlord_decision), the offer dispatcher (initiate_renewal),    *)
(* the follow-up (send_follow_up) and the scheduled sweep                  *)
(* (run_scheduled_workflow).                                               *)
(*                                                                         *)
(* Money is an integer number of thousandths of a euro (1000000 = 1000.00  *)
(* EUR), so that round(x, 2) is a real conversion.  Time is an integer     *)
(* number of days; a timestamp is the day it was taken on.                 *)
(***************************************************************************)
EXTENDS Integers, Sequences, FiniteSets, TLC

VARIABLES now, leases, offers, logs, feedback, out,
          ledger, scores, scenarios, calls

\* the tables read and written by the scoring and pricing services, and the
\* invocations in progress
analytics == <<ledger, scores, scenarios, calls>>

vars == <<now, leases, offers, logs, feedback, out, ledger, scores, scenarios, calls>>

\* an absent number (every modelled amount and day is non-negative)
NULL == -1
NONE == "none"

\* ---- bounds of the exploration ------------------------------------------
MaxOffers == 2
MaxLogs == 2
MaxDay == 14
MaxFollowUps == 1

\* ---- RenewalEngineConfig ------------------------------------------------
first_contact_days_before_expiry == 90
followup_days_no_response == 7
auto_list_days_no_response == 14
\* in hundredths (0.65)
min_confidence_to_auto_send == 65

\* ---- input domains --------------------------------------------------------
LeaseIds == {"L1", "L2"}
LeaseOrder == <<"L1", "L2">>
TickDays == {7}
CurrentRent == 1000000
IncreasePcts == {3}
\* score["confidence_score"] in hundredths
Confidences == {64, 65}
NoTerms == [present |-> FALSE, min_acceptable_rent |-> 0, auto_negotiate |-> TRUE]
TermsSet == {[present |-> TRUE, min_acceptable_rent |-> 950000, auto_negotiate |-> TRUE],
             [present |-> TRUE, min_acceptable_rent |-> 1050000, auto_negotiate |-> FALSE]}
CounterRents == {NULL, 0, 900000, 960000, 1000004}
Classifications == {"accepting", "negotiating", "resistant", "unclear"}
Responses == {"drafted"}
Decisions == {"accept", "counter", "reject", "escalate"}
DecisionRents == {NULL, 900000, 1000000}
InitiateFails == {"none", "check", "sim", "insert", "floor_update", "notify"}
StepFails == {"none", "collab", "update"}

\* classifier outputs (the JSON object returned by the analysis collaborator)
Analyses ==
    [classification : Classifications,
     conclude_deal : BOOLEAN,
     trigger_relisting : BOOLEAN,
     escalate_to_landlord : BOOLEAN,
     suggested_counter_rent : CounterRents,
     response_to_tenant : Responses]

\* what initiate_renewal gets from its collaborators for one lease
\* (a field that the run does not read is kept at one value)
InitiateInputs ==
    {in \in [inc : IncreasePcts, confidence : Confidences, send_ok : BOOLEAN,
             fail : InitiateFails] :
        /\ in.confidence < min_confidence_to_auto_send => in.send_ok
        /\ in.fail \in {"check", "sim"} =>
              in.confidence >= min_confidence_to_auto_send /\ in.send_ok}

\* the bodies of POST /offers/{offer_id}/decision
DecisionBodies ==
    {b \in [decision : Decisions, counter_rent : DecisionRents] :
        b.decision # "counter" => b.counter_rent = NULL}

\* round(x, 2): nearest cent, halves to even
Round2(x) ==
    LET q == x \div 10
        r == x % 10
    IN  IF r < 5 THEN q * 10
        ELSE IF r > 5 THEN (q + 1) * 10
        ELSE IF q % 2 = 0 THEN q * 10 ELSE (q + 1) * 10

\* Python truthiness of an optional number: None and 0 are both falsy
Truthy(x) == x # NULL /\ x # 0

\* ---- the store after construction -------------------------------------------
\* no payment, ticket, score or scenario row, and no invocation in progress
NoAnalytics ==
    /\ ledger = <<>>
    /\ scores = <<>>
    /\ scenarios = <<>>
    /\ calls = <<>>

LeaseRow(s, e, w, ll) ==
    [status |-> s, end_date |-> e, whatsapp |-> w, email |-> TRUE, landlord |-> ll]

LeaseChoices ==
    [L1 |-> {LeaseRow("active", 90, TRUE, TRUE)},
     L2 |-> {LeaseRow("terminated", 90, TRUE, TRUE), LeaseRow("active", 95, FALSE, FALSE)}]

EmptyOut ==
    [op |-> "none", offer |-> 0, escalate |-> FALSE, counter |-> NULL,
     response |-> NONE, sent |-> FALSE, notified |-> <<>>, relisted |-> <<>>,
     initiated |-> <<>>, followed_up |-> <<>>, auto_listed |-> <<>>,
     errors |-> <<>>, reminders |-> <<>>, proposals |-> <<>>, raised |-> NONE,
     failed |-> FALSE, requires_approval |-> FALSE]

Init ==
    /\ now = 0
    /\ leases \in {f \in [LeaseIds -> UNION {LeaseChoices[l] : l \in LeaseIds}] :
                      \A l \in LeaseIds : f[l] \in LeaseChoices[l]}
    /\ offers = <<>>
    /\ logs = <<>>
    /\ feedback = <<>>
    /\ out = EmptyOut
    /\ NoAnalytics

\* ---- time ---------------------------------------------------------------
Tick(d) ==
    /\ now + d <= MaxDay
    /\ now' = now + d
    /\ out' = [EmptyOut EXCEPT !.op = "tick"]
    /\ UNCHANGED <<analytics, leases, offers, logs, feedback>>

\* ---- initiate_renewal -----------------------------------------------------
Channel(lease) ==
    IF lease.whatsapp THEN "whatsapp" ELSE IF lease.email THEN "email" ELSE "in_app"

\* a faulty variant of SendAttempted: the placeholder channel counts as a send
SendAttempted_Always(lease) == TRUE

\* _send_offer: TRUE iff a send is attempted on the channel
SendAttempted(lease) ==
    \/ Channel(lease) = "whatsapp" /\ lease.whatsapp
    \/ Channel(lease) = "email" /\ lease.email

ProposedRent(inc) == (CurrentRent * (100 + inc)) \div 100

\* generate_renewal_offer: the monthly rent of the 12-month option of the proposal
rent_12m(inc) == Round2((CurrentRent * (100 + inc)) \div 100)

\* a faulty variant of RequiresApproval: a score on the threshold is held back
RequiresApproval_Inclusive(in) == in.confidence <= min_confidence_to_auto_send

\* a faulty variant of RequiresApproval: the gate is never closed
RequiresApproval_Never(in) == FALSE

\* the confidence gate
RequiresApproval(in) == in.confidence < min_confidence_to_auto_send

\* the result of initiate_renewal(lease_id, landlord_terms) on the offer table
\* offs: the new table, raised, the proposal sends and the notifications made
InitiateRenewal(offs, lease_id, terms, in) ==
    LET lease == leases[lease_id]
        attempted == ~RequiresApproval(in) /\ SendAttempted(lease)
        send_success == attempted /\ in.send_ok
        proposals == IF attempted
                     THEN <<[lease_id |-> lease_id, delivered |-> in.send_ok,
                             monthly_rent |-> rent_12m(in.inc)]>>
                     ELSE <<>>
        proposed_rent == ProposedRent(in.inc)
        offer_row == [lease_id |-> lease_id,
                      proposed_rent |-> Round2(proposed_rent),
                      status |-> "pending",
                      channel |-> Channel(lease),
                      sent_at |-> IF send_success THEN now ELSE NULL,
                      responded_at |-> NULL,
                      follow_up_count |-> 0,
                      follow_up_sent_at |-> NULL,
                      terms |-> terms]
        inserted == Append(offs, offer_row)
        offer_id == Len(inserted)
        below == terms.present /\ terms.min_acceptable_rent # 0
                    /\ proposed_rent < terms.min_acceptable_rent
        raised_rows == [inserted EXCEPT ![offer_id].proposed_rent =
                                            Round2(terms.min_acceptable_rent)]
        note == <<[lease_id |-> lease_id, type |-> "renewal_initiated"]>>
        send_failed == attempted /\ ~in.send_ok
    IN  IF in.fail = "sim"
        THEN [offers |-> offs, raised |-> TRUE, proposals |-> <<>>, notified |-> <<>>,
              failed |-> TRUE]
        ELSE IF in.fail = "insert"
        THEN [offers |-> offs, raised |-> TRUE, proposals |-> proposals, notified |-> <<>>,
              failed |-> TRUE]
        ELSE IF below /\ in.fail = "floor_update"
        THEN [offers |-> inserted, raised |-> TRUE, proposals |-> proposals,
              notified |-> <<>>, failed |-> TRUE]
        ELSE LET stored == IF below THEN raised_rows ELSE inserted
             IN  IF lease.landlord /\ in.fail = "notify"
                 THEN [offers |-> stored, raised |-> TRUE, proposals |-> proposals,
                       notified |-> <<>>, failed |-> TRUE]
                 ELSE [offers |-> stored, raised |-> FALSE, proposals |-> proposals,
                       notified |-> IF lease.landlord THEN note ELSE <<>>,
                       failed |-> send_failed]

\* POST /leases/{lease_id}/initiate
InitiateLeaseRenewal(lease_id, terms, in) ==
    /\ Len(offers) < MaxOffers
    /\ in.fail # "check"
    /\ \E r \in {InitiateRenewal(offers, lease_id, terms, in)} :
           /\ offers' = r.offers
           /\ out' = [EmptyOut EXCEPT !.op = "initiate",
                                      !.offer = IF Len(r.offers) > Len(offers)
                                                THEN Len(r.offers) ELSE 0,
                                      !.proposals = r.proposals,
                                      !.notified = r.notified,
                                      !.sent = /\ ~r.raised
                                               /\ r.proposals # <<>>
                                               /\ r.proposals[1].delivered,
                                      !.requires_approval = ~r.raised /\ RequiresApproval(in),
                                      !.raised = IF r.raised THEN "error" ELSE NONE,
                                      !.failed = r.failed]
    /\ UNCHANGED <<analytics, now, leases, logs, feedback>>

\* ---- the manual initiate trigger on its own --------------------------------------
\* a lease with or without a WhatsApp number, an e-mail address and a landlord
ContactRow(w, e, ll) ==
    [status |-> "active", end_date |-> 90, whatsapp |-> w, email |-> e, landlord |-> ll]

InitiateLeases ==
    {[L1 |-> r1, L2 |-> r2] : r1 \in {ContactRow(TRUE, TRUE, TRUE), ContactRow(FALSE, TRUE, FALSE)},
                             r2 \in {ContactRow(FALSE, FALSE, TRUE)}}

InitInitiate ==
    /\ now = 0
    /\ leases \in InitiateLeases
    /\ offers = <<>>
    /\ logs = <<>>
    /\ feedback = <<>>
    /\ out = EmptyOut
    /\ NoAnalytics

NextInitiate ==
    \E l \in LeaseIds, t \in TermsSet \cup {NoTerms}, in \in InitiateInputs :
        InitiateLeaseRenewal(l, t, in)

SpecInitiate == InitInitiate /\ [][NextInitiate]_vars

\* ---- analyse_tenant_response -------------------------------------------------
\* the floor the engine checks a counter against
MinRent(offer) ==
    IF offer.terms.present /\ offer.terms.min_acceptable_rent # 0
    THEN offer.terms.min_acceptable_rent
    ELSE (offer.proposed_rent * 95) \div 100

\* the safety check: a counter that is present (truthy) and below the floor
Breach(offer, a) ==
    /\ Truthy(a.suggested_counter_rent)
    /\ a.suggested_counter_rent < MinRent(offer)

\* the analysis after the safety check
Checked(offer, a) ==
    IF Breach(offer, a)
    THEN [a EXCEPT !.escalate_to_landlord = TRUE,
                   !.suggested_counter_rent = NULL,
                   !.response_to_tenant = "holding"]
    ELSE a

\* a faulty variant of NewStatus: trigger_relisting tested before conclude_deal
NewStatus_RelistFirst(a, escalate) ==
    IF a.trigger_relisting THEN "rejected"
    ELSE IF a.conclude_deal THEN "accepted"
    ELSE IF a.classification = "negotiating" /\ ~escalate THEN "countered"
    ELSE "pending"

\* escalate is the local flag: the classifier's, or TRUE after a breach
NewStatus(a, escalate) ==
    IF a.conclude_deal THEN "accepted"
    ELSE IF a.trigger_relisting THEN "rejected"
    ELSE IF a.classification = "negotiating" /\ ~escalate THEN "countered"
    ELSE "pending"

OfferUpdate(offer, new_status, counter_rent) ==
    [offer EXCEPT !.status = new_status,
                  !.responded_at = now,
                  !.proposed_rent = IF new_status = "countered" /\ Truthy(counter_rent)
                                    THEN Round2(counter_rent) ELSE @]

\* a faulty variant of LandlordNotice: an in-progress turn is reported as well
LandlordNotice_EveryTurn(lease_id, a, escalate) ==
    IF ~leases[lease_id].landlord THEN <<>>
    ELSE IF a.conclude_deal
         THEN <<[lease_id |-> lease_id, type |-> "renewal_concluded_success"]>>
    ELSE IF a.trigger_relisting
         THEN <<[lease_id |-> lease_id, type |-> "renewal_concluded_failed"]>>
    ELSE <<[lease_id |-> lease_id, type |-> "renewal_escalation"]>>

LandlordNotice(lease_id, a, escalate) ==
    IF ~leases[lease_id].landlord THEN <<>>
    ELSE IF a.conclude_deal
         THEN <<[lease_id |-> lease_id, type |-> "renewal_concluded_success"]>>
    ELSE IF a.trigger_relisting
         THEN <<[lease_id |-> lease_id, type |-> "renewal_concluded_failed"]>>
    ELSE IF escalate
         THEN <<[lease_id |-> lease_id, type |-> "renewal_escalation"]>>
    ELSE <<>>

\* a faulty variant of Outcome: trigger_relisting tested before conclude_deal
Outcome_ChurnFirst(a) ==
    IF a.trigger_relisting THEN "churned"
    ELSE IF a.conclude_deal THEN "renewed"
    ELSE NONE

\* the outcome of the OutcomeFeedback row, NONE when no row is written
Outcome(a) ==
    IF a.conclude_deal \/ a.trigger_relisting
    THEN IF a.conclude_deal THEN "renewed" ELSE "churned"
    ELSE NONE

\* a faulty variant of AutoReply: the landlord's auto_negotiate flag is not read
AutoReply_WithoutAutonomy(offer, lease, response_text) ==
    lease.whatsapp /\ response_text # ""

\* the reply goes to the occupant: auto_negotiate and tenant_phone and response_text
AutoReply(offer, lease, response_text) ==
    offer.terms.auto_negotiate /\ lease.whatsapp /\ response_text # ""

AnalyseTenantResponse(offer_id, a) ==
    /\ offer_id \in 1..Len(offers)
    /\ Len(logs) < MaxLogs
    /\ LET offer == offers[offer_id]
           lease_id == offer.lease_id
           c == Checked(offer, a)
           escalate == c.escalate_to_landlord
           counter_rent == c.suggested_counter_rent
           new_status == NewStatus(a, escalate)
           response_text == c.response_to_tenant
           sent == AutoReply(offer, leases[lease_id], response_text)
       IN  /\ logs' = Append(logs, [renewal_offer_id |-> offer_id,
                                    landlord_decision |-> NONE])
           /\ offers' = [offers EXCEPT ![offer_id] =
                                          OfferUpdate(offer, new_status, counter_rent)]
           /\ feedback' = IF Outcome(a) # NONE
                          THEN Append(feedback, [renewal_offer_id |-> offer_id,
                                                 outcome |-> Outcome(a)])
                          ELSE feedback
           /\ out' = [EmptyOut EXCEPT
                        !.op = "analyse",
                        !.offer = offer_id,
                        !.escalate = escalate,
                        !.counter = counter_rent,
                        !.response = response_text,
                        !.sent = sent,
                        !.notified = LandlordNotice(lease_id, a, escalate),
                        !.relisted = IF leases[lease_id].landlord /\ ~a.conclude_deal
                                          /\ a.trigger_relisting
                                     THEN <<lease_id>> ELSE <<>>]
    /\ UNCHANGED <<analytics, now, leases>>

\* ---- record_landlord_decision ---------------------------------------------
\* the index of the latest log row of the offer, 0 when it has none
RECURSIVE LatestLog(_, _, _)
LatestLog(rows, offer_id, i) ==
    IF i = 0 THEN 0
    ELSE IF rows[i].renewal_offer_id = offer_id THEN i
    ELSE LatestLog(rows, offer_id, i - 1)

DecisionUpdate(offer, decision, counter_rent) ==
    IF decision = "accept" THEN [offer EXCEPT !.status = "accepted"]
    ELSE IF decision = "reject" THEN [offer EXCEPT !.status = "rejected"]
    ELSE IF decision = "counter"
         THEN [offer EXCEPT !.proposed_rent = counter_rent, !.status = "pending"]
    ELSE [offer EXCEPT !.status = "pending"]

RecordLandlordDecision(offer_id, decision, counter_rent) ==
    /\ offer_id \in 1..Len(offers)
    /\ IF decision = "counter" /\ ~Truthy(counter_rent)
       THEN \* HTTP 400, nothing written
            /\ out' = [EmptyOut EXCEPT !.op = "decision", !.offer = offer_id,
                                       !.raised = "bad_request"]
            /\ UNCHANGED <<offers, logs>>
       ELSE LET i == LatestLog(logs, offer_id, Len(logs))
            IN  /\ offers' = [offers EXCEPT ![offer_id] =
                                 DecisionUpdate(offers[offer_id], decision, counter_rent)]
                /\ logs' = IF i = 0 THEN logs
                           ELSE [logs EXCEPT ![i].landlord_decision = decision]
                /\ out' = [EmptyOut EXCEPT
                             !.op = "decision", !.offer = offer_id,
                             !.relisted = IF decision = "reject"
                                          THEN <<offers[offer_id].lease_id>> ELSE <<>>]
    /\ UNCHANGED <<analytics, now, leases, feedback>>

\* ---- the negotiation of one offer -------------------------------------------
NegotiationLeases ==
    {[l \in LeaseIds |-> LeaseRow("active", 90, w, w)] : w \in BOOLEAN}

Dispatched == [inc |-> 3, confidence |-> 65, send_ok |-> TRUE, fail |-> "none"]

\* the store after one initiate_renewal call on the empty store
InitNegotiation ==
    /\ now = 0
    /\ leases \in NegotiationLeases
    /\ \E t \in TermsSet \cup {NoTerms} :
          offers = InitiateRenewal(<<>>, "L1", t, Dispatched).offers
    /\ logs = <<>>
    /\ feedback = <<>>
    /\ out = EmptyOut
    /\ NoAnalytics

NextNegotiation ==
    \/ \E o \in 1..MaxOffers, a \in Analyses : AnalyseTenantResponse(o, a)
    \/ \E o \in 1..MaxOffers, b \in DecisionBodies :
          RecordLandlordDecision(o, b.decision, b.counter_rent)

SpecNegotiation == InitNegotiation /\ [][NextNegotiation]_vars

\* the tenant's replies alone against the dispatched offer
NextReplies == \E o \in 1..MaxOffers, a \in Analyses : AnalyseTenantResponse(o, a)

SpecReplies == InitNegotiation /\ [][NextReplies]_vars

\* ---- analyse_tenant_response when a store call raises -----------------------------
\* the store call that raises (the classifier, the reply and the notification
\* never raise: their failures are caught inside the handler)
AnalyseFails == {"log_insert", "offer_update", "feedback_insert"}

\* a faulty variant of AnalyseWrites: the offer is updated before the log insert
AnalyseWrites_UpdateFirst(offer_id, a, fail) ==
    LET offer == offers[offer_id]
        c == Checked(offer, a)
        updated == [offers EXCEPT ![offer_id] =
                       OfferUpdate(offer, NewStatus(a, c.escalate_to_landlord),
                                   c.suggested_counter_rent)]
        logged == Append(logs, [renewal_offer_id |-> offer_id, landlord_decision |-> NONE])
    IN  IF fail = "offer_update" THEN [logs |-> logs, offers |-> offers]
        ELSE IF fail = "log_insert" THEN [logs |-> logs, offers |-> updated]
        ELSE [logs |-> logged, offers |-> updated]

\* the writes made before the call raised at fail, in the order of the code
AnalyseWrites(offer_id, a, fail) ==
    LET offer == offers[offer_id]
        c == Checked(offer, a)
        updated == [offers EXCEPT ![offer_id] =
                       OfferUpdate(offer, NewStatus(a, c.escalate_to_landlord),
                                   c.suggested_counter_rent)]
        logged == Append(logs, [renewal_offer_id |-> offer_id, landlord_decision |-> NONE])
    IN  IF fail = "log_insert" THEN [logs |-> logs, offers |-> offers]
        ELSE IF fail = "offer_update" THEN [logs |-> logged, offers |-> offers]
        ELSE [logs |-> logged, offers |-> updated]

\* a call that raises from a store write
AnalyseTenantResponseFailing(offer_id, a, fail) ==
    /\ offer_id \in 1..Len(offers)
    /\ Len(logs) < MaxLogs
    /\ fail = "feedback_insert" => Outcome(a) # NONE
    /\ \E w \in {AnalyseWrites(offer_id, a, fail)} :
           /\ logs' = w.logs
           /\ offers' = w.offers
    /\ out' = [EmptyOut EXCEPT !.op = "analyse_failed", !.offer = offer_id,
                               !.raised = "error", !.failed = TRUE]
    /\ UNCHANGED <<analytics, now, leases, feedback>>

\* a call for an offer id the store does not hold: ValueError, HTTP 404
AnalyseUnknownOffer(offer_id) ==
    /\ offer_id \notin 1..Len(offers)
    /\ out' = [EmptyOut EXCEPT !.op = "analyse_failed", !.offer = offer_id,
                               !.raised = "not_found"]
    /\ UNCHANGED <<analytics, now, leases, offers, logs, feedback>>

NextRepliesFailing ==
    \/ \E o \in 1..MaxOffers, a \in Analyses : AnalyseTenantResponse(o, a)
    \/ \E o \in 1..MaxOffers, a \in Analyses, f \in AnalyseFails :
          AnalyseTenantResponseFailing(o, a, f)
    \/ \E o \in 1..MaxOffers : AnalyseUnknownOffer(o)

SpecRepliesFailing == InitNegotiation /\ [][NextRepliesFailing]_vars

\* ---- send_follow_up ----------------------------------------------------------
\* mode "collab": the WhatsApp send raises; mode "update": the offer update raises
SendFollowUp(offs, offer_id, mode) ==
    LET offer == offs[offer_id]
        attempted == leases[offer.lease_id].whatsapp
        success == attempted /\ mode # "collab"
        reminders == IF attempted
                     THEN <<[offer_id |-> offer_id, delivered |-> success]>> ELSE <<>>
        updated == [offs EXCEPT ![offer_id] =
                       [offer EXCEPT !.follow_up_sent_at = now,
                                     !.follow_up_count = offer.follow_up_count + 1]]
    IN  IF mode = "update"
        THEN [offers |-> offs, success |-> success, reminders |-> reminders,
              raised |-> TRUE, failed |-> TRUE]
        ELSE [offers |-> updated, success |-> success, reminders |-> reminders,
              raised |-> FALSE, failed |-> attempted /\ ~success]

\* POST /offers/{offer_id}/follow-up
TriggerFollowUp(offer_id, mode) ==
    /\ offer_id \in 1..Len(offers)
    /\ offers[offer_id].follow_up_count < MaxFollowUps
    /\ \E r \in {SendFollowUp(offers, offer_id, mode)} :
           /\ offers' = r.offers
           /\ out' = [EmptyOut EXCEPT !.op = "follow_up", !.offer = offer_id,
                                      !.sent = r.success, !.reminders = r.reminders,
                                      !.raised = IF r.raised THEN "error" ELSE NONE,
                                      !.failed = r.failed]
    /\ UNCHANGED <<analytics, now, leases, logs, feedback>>

\* ---- run_scheduled_workflow ---------------------------------------------------
InWindow(lease) ==
    /\ lease.end_date >= now + first_contact_days_before_expiry - 5
    /\ lease.end_date <= now + first_contact_days_before_expiry + 5

\* candidates_res: the leases of the initiate query
Candidates == {l \in LeaseIds : leases[l].status = "active" /\ InWindow(leases[l])}

\* a faulty variant of ExistingOffer: only a pending offer suppresses re-initiation
ExistingOffer_PendingOnly(offs, lease_id) ==
    \E i \in 1..Len(offs) : offs[i].lease_id = lease_id /\ offs[i].status = "pending"

\* existing.data: some offer row exists for the lease
ExistingOffer(offs, lease_id) == \E i \in 1..Len(offs) : offs[i].lease_id = lease_id

\* the summary after initiate_renewal(l) returned or raised r
Initiated(st, l, r) ==
    [st EXCEPT !.offers = r.offers,
               !.initiated = IF r.raised THEN @ ELSE Append(@, l),
               !.errors = IF r.raised THEN Append(@, l) ELSE @,
               !.proposals = @ \o r.proposals,
               !.notified = @ \o r.notified,
               !.failed = @ \/ r.failed]

\* loop 1 of the sweep over the candidates, in the order of the result set
RECURSIVE InitiateAll(_, _, _)
InitiateAll(i, st, ci) ==
    IF i > Len(LeaseOrder) \/ st.aborted THEN st
    ELSE LET l == LeaseOrder[i]
         IN  IF l \notin Candidates THEN InitiateAll(i + 1, st, ci)
             ELSE IF ci[l].fail = "check"
                  THEN [st EXCEPT !.aborted = TRUE, !.failed = TRUE]
             ELSE IF ExistingOffer(st.offers, l) THEN InitiateAll(i + 1, st, ci)
             ELSE InitiateAll(i + 1,
                     Initiated(st, l, InitiateRenewal(st.offers, l, NoTerms, ci[l])), ci)

\* a faulty variant of AutoListDue: the test without the follow_up_count condition
AutoListDue_NoFollowUp(offer) == offer.sent_at <= now - auto_list_days_no_response

AutoListDue(offer) ==
    /\ offer.sent_at <= now - auto_list_days_no_response
    /\ offer.follow_up_count >= 1

FollowUpDue(offer) ==
    /\ offer.sent_at <= now - followup_days_no_response
    /\ offer.follow_up_count = 0

\* pending_offers_res: the offers of the follow-up query
PendingSent(offs) ==
    {i \in 1..Len(offs) : offs[i].status = "pending" /\ offs[i].sent_at # NULL}

\* the summary after send_follow_up(i) returned or raised r
FollowedUp(st, i, r) ==
    [st EXCEPT !.offers = r.offers,
               !.reminders = @ \o r.reminders,
               !.followed_up = IF r.raised THEN @ ELSE Append(@, i),
               !.failed = @ \/ r.failed]

\* loop 2 of the sweep over the rows of pending_offers_res (a snapshot)
RECURSIVE FollowUpAll(_, _, _, _)
FollowUpAll(i, st, rows, sf) ==
    IF i > Len(rows) THEN st
    ELSE IF i \notin PendingSent(rows) THEN FollowUpAll(i + 1, st, rows, sf)
    ELSE LET offer == rows[i]
             mode == IF i \in DOMAIN sf THEN sf[i] ELSE "none"
         IN  IF AutoListDue(offer)
             THEN FollowUpAll(i + 1,
                    [st EXCEPT
                       !.relisted = Append(@, offer.lease_id),
                       !.offers = IF mode = "none"
                                  THEN [@ EXCEPT ![i].status = "expired"] ELSE @,
                       !.auto_listed = IF mode = "none"
                                       THEN Append(@, offer.lease_id) ELSE @,
                       !.errors = IF mode = "none" THEN @ ELSE Append(@, offer.lease_id),
                       !.failed = @ \/ mode # "none"],
                    rows, sf)
             ELSE IF FollowUpDue(offer)
             THEN FollowUpAll(i + 1, FollowedUp(st, i, SendFollowUp(st.offers, i, mode)),
                              rows, sf)
             ELSE FollowUpAll(i + 1, st, rows, sf)

SweepStart ==
    [offers |-> offers, initiated |-> <<>>, followed_up |-> <<>>, auto_listed |-> <<>>,
     errors |-> <<>>, relisted |-> <<>>, reminders |-> <<>>, proposals |-> <<>>,
     notified |-> <<>>, aborted |-> FALSE, failed |-> FALSE]

RunScheduledWorkflow(ci, sf) ==
    LET s1 == InitiateAll(1, SweepStart, ci)
    IN  IF s1.aborted THEN s1 ELSE FollowUpAll(1, s1, s1.offers, sf)

\* the offers loop 1 will add
ToInitiate == {l \in Candidates : ~ExistingOffer(offers, l)}

\* POST /run-scheduled-workflow
RunWorkflow(ci, sf) ==
    /\ Len(offers) + Cardinality(ToInitiate) <= MaxOffers
    /\ \E s \in {RunScheduledWorkflow(ci, sf)} :
           /\ offers' = s.offers
           /\ out' = [EmptyOut EXCEPT
                        !.op = "sweep",
                        !.initiated = s.initiated,
                        !.followed_up = s.followed_up,
                        !.auto_listed = s.auto_listed,
                        !.errors = s.errors,
                        !.relisted = s.relisted,
                        !.reminders = s.reminders,
                        !.proposals = s.proposals,
                        !.notified = s.notified,
                        !.raised = IF s.aborted THEN "error" ELSE NONE,
                        !.failed = s.failed]
    /\ UNCHANGED <<analytics, now, leases, logs, feedback>>

\* ---- the renewal workflow over time -------------------------------------------
\* initiate_renewal without landlord terms never reaches the floor update
WorkflowInputs == {in \in InitiateInputs : in.fail # "floor_update"}

NextWorkflow ==
    \/ \E d \in TickDays : Tick(d)
    \/ \E ci \in [Candidates -> WorkflowInputs], sf \in [PendingSent(offers) -> StepFails] :
          RunWorkflow(ci, sf)
    \/ \E o \in 1..MaxOffers, m \in StepFails : TriggerFollowUp(o, m)
    \/ \E o \in 1..MaxOffers, b \in DecisionBodies :
          /\ b.decision # "counter"
          /\ RecordLandlordDecision(o, b.decision, b.counter_rent)

SpecWorkflow == Init /\ [][NextWorkflow]_vars

\* ---- the negotiation claims (SpecNegotiation, SpecReplies) ----------------------
OfferIds == 1..Len(offers)

\* the classifier outputs a with which this step is AnalyseTenantResponse(offer, a)
\* (the first filter only discards outputs that cannot have given out')
AnalysedWith ==
    {a \in {b \in Analyses :
               /\ out'.counter = IF Breach(offers[out'.offer], b) THEN NULL
                                 ELSE b.suggested_counter_rent
               /\ out'.escalate = (Breach(offers[out'.offer], b) \/ b.escalate_to_landlord)
               /\ (feedback' # feedback) = (b.conclude_deal \/ b.trigger_relisting)} :
        AnalyseTenantResponse(out'.offer, a)}

\* C1: once negotiation has begun (a tenant reply has been processed), no tenant
\* reply and no landlord decision leaves an offer's proposed_rent below the floor
\* embedded in its landlord terms.
C1_FloorNeverBreached ==
    \A o \in OfferIds :
        offers[o].terms.present /\ offers[o].responded_at # NULL =>
            offers[o].proposed_rent >= offers[o].terms.min_acceptable_rent

\* C2: a suggested counter that is present and below the floor always forces
\* escalate = true, a null counter, the holding reply and an unchanged
\* proposed_rent, whatever the classification and the decision flags.
C2_BelowFloorForcesEscalation ==
    [][out'.op = "analyse" =>
         \A a \in AnalysedWith :
            ( /\ a.suggested_counter_rent # NULL
              /\ a.suggested_counter_rent < MinRent(offers[out'.offer]) )
            => ( /\ out'.escalate
                 /\ out'.counter = NULL
                 /\ out'.response = "holding"
                 /\ offers'[out'.offer].proposed_rent = offers[out'.offer].proposed_rent )]_vars

\* C3: when the below-floor safety check fires on a message against a pending
\* offer, the offer stays pending and the landlord (of a unit that has one) is
\* notified with category renewal_escalation, for every classification,
\* conclude_deal and trigger_relisting.
C3_BelowFloorStaysPending ==
    [][out'.op = "analyse" =>
         \A a \in AnalysedWith :
            ( /\ offers[out'.offer].status = "pending"
              /\ Breach(offers[out'.offer], a) )
            => ( /\ offers'[out'.offer].status = "pending"
                 /\ leases[offers[out'.offer].lease_id].landlord =>
                       out'.notified = <<[lease_id |-> offers[out'.offer].lease_id,
                                          type |-> "renewal_escalation"]>> )]_vars

\* C4: accepted and rejected are terminal: no later operation changes the status
\* or the proposed_rent of an offer that is accepted or rejected.
C4_TerminalStatuses ==
    [][\A o \in OfferIds :
          offers[o].status \in {"accepted", "rejected"} =>
             /\ offers'[o].status = offers[o].status
             /\ offers'[o].proposed_rent = offers[o].proposed_rent]_vars

\* C5: a tenant message processed against a countered offer leaves it accepted,
\* rejected or countered, never pending.
C5_CounteredNeverPending ==
    [][(out'.op = "analyse" /\ logs' # logs /\ offers[out'.offer].status = "countered")
          => offers'[out'.offer].status \in {"accepted", "rejected", "countered"}]_vars

\* C6 (as stated): the new status follows conclude_deal, then trigger_relisting,
\* then negotiating without escalation; a countered offer's proposed_rent becomes
\* the suggested counter and a pending one keeps its proposed_rent.
C6_StatusMapping ==
    [][out'.op = "analyse" =>
         \A a \in AnalysedWith :
               LET o == out'.offer
                   st == offers'[o].status
               IN  /\ a.conclude_deal => st = "accepted"
                   /\ ~a.conclude_deal /\ a.trigger_relisting => st = "rejected"
                   /\ ~a.conclude_deal /\ ~a.trigger_relisting =>
                         IF a.classification = "negotiating" /\ ~out'.escalate
                         THEN st = "countered"
                         ELSE st = "pending"
                   /\ st = "countered" => offers'[o].proposed_rent = out'.counter
                   /\ st = "pending" =>
                         offers'[o].proposed_rent = offers[o].proposed_rent]_vars

\* C6 (amended): the same precedence; a countered offer's proposed_rent becomes
\* the suggested counter rounded to two decimals when a non-null, non-zero counter
\* was suggested, and in every other case proposed_rent is unchanged.
C6_StatusMappingAmended ==
    [][out'.op = "analyse" =>
         \A a \in AnalysedWith :
               LET o == out'.offer
                   st == offers'[o].status
                   c == out'.counter
               IN  /\ a.conclude_deal => st = "accepted"
                   /\ ~a.conclude_deal /\ a.trigger_relisting => st = "rejected"
                   /\ ~a.conclude_deal /\ ~a.trigger_relisting =>
                         IF a.classification = "negotiating" /\ ~out'.escalate
                         THEN st = "countered"
                         ELSE st = "pending"
                   /\ offers'[o].proposed_rent =
                         IF st = "countered" /\ c # NULL /\ c # 0
                         THEN IF c % 10 = 0 THEN c ELSE 10 * ((c + 5) \div 10)
                         ELSE offers[o].proposed_rent]_vars

\* a message countered the offer and the stored rent is the rounded counter
C6_Witness ==
    /\ out.op = "analyse"
    /\ offers[out.offer].status = "countered"
    /\ out.counter = 1000004
    /\ offers[out.offer].proposed_rent = 1000000

\* ---- the sweep claims (SpecWorkflow) ---------------------------------------------
\* a sweep step that reached its end and met no failing collaborator or store call
CleanSweep == out'.op = "sweep" /\ out'.raised = NONE /\ ~out'.failed

\* the number of reminder messages the step sent for offer o
RemindersSent(o) ==
    Cardinality({k \in 1..Len(out'.reminders) : out'.reminders[k].offer_id = o})

\* C7: the sweep is idempotent: a failure-free sweep that immediately follows a
\* failure-free sweep (no elapsed time, nothing in between) creates no offer, sends
\* no reminder and makes no re-listing call.
C7_SweepIdempotent ==
    [][(out.op = "sweep" /\ out.raised = NONE /\ ~out.failed /\ CleanSweep) =>
          /\ Len(offers') = Len(offers)
          /\ out'.initiated = <<>>
          /\ out'.proposals = <<>>
          /\ out'.reminders = <<>>
          /\ out'.relisted = <<>>]_vars

AutoListCase(o) ==
    /\ offers[o].status = "pending"
    /\ offers[o].sent_at # NULL
    /\ offers[o].sent_at <= now - auto_list_days_no_response
    /\ offers[o].follow_up_count >= 1

\* the sweep made a re-listing call for the lease of offer o
Relisted(o) == \E k \in 1..Len(out'.relisted) : out'.relisted[k] = offers[o].lease_id

\* the sweep recorded an error for the lease of offer o
Errored(o) == \E k \in 1..Len(out'.errors) : out'.errors[k] = offers[o].lease_id

InitiateCalled(l) ==
    \/ \E k \in 1..Len(out'.initiated) : out'.initiated[k] = l
    \/ \E k \in 1..Len(out'.proposals) : out'.proposals[k].lease_id = l
    \/ \E k \in 1..Len(out'.notified) : out'.notified[k].lease_id = l
    \/ \E i \in (Len(offers) + 1)..Len(offers') : offers'[i].lease_id = l

\* C10: a sweep calls initiate_renewal only for a lease that is active, ends
\* within [today+85, today+95] and has no offer of any status, and it adds at most
\* one offer for it; hence the sweeps never leave two offers on one lease.
C10_InitiateOncePerLease ==
    /\ [][out'.op = "sweep" =>
            /\ Len(offers') >= Len(offers)
            /\ \A l \in LeaseIds :
                  /\ InitiateCalled(l) =>
                        /\ leases[l].status = "active"
                        /\ leases[l].end_date >= now + 85
                        /\ leases[l].end_date <= now + 95
                        /\ \A o \in OfferIds : offers[o].lease_id # l
                  /\ Cardinality({i \in (Len(offers) + 1)..Len(offers') :
                                     offers'[i].lease_id = l}) <= 1]_vars
    /\ [](\A i, j \in OfferIds : offers[i].lease_id = offers[j].lease_id => i = j)

\* a sweep passed over a lease in the window whose only offer is no longer pending
C10_Witness ==
    /\ out.op = "sweep"
    /\ out.initiated = <<>>
    /\ \E o \in OfferIds : /\ offers[o].lease_id \in Candidates
                           /\ offers[o].status # "pending"

\* ---- the initiate claims (SpecInitiate) --------------------------------------------
\* the offer row the step added, when it added one
NewRow == offers'[Len(offers')]

\* C11: in every reachable state a lease has at most one open (pending or
\* countered) offer: no initiate call adds a second open offer to a lease.
C11_OneOpenOfferPerLease ==
    \A i, j \in OfferIds :
        ( /\ offers[i].lease_id = offers[j].lease_id
          /\ offers[i].status \in {"pending", "countered"}
          /\ offers[j].status \in {"pending", "countered"} ) => i = j

\* C14: an initiate call whose confidence score is below 0.65 makes no send
\* attempt, stores the offer (unless the insert raises) as pending with a null
\* sent_at, and a call that returns reports requires_approval = true and sent = false.
C14_ConfidenceGate ==
    [][out'.op = "initiate" =>
         \A l \in LeaseIds, t \in TermsSet \cup {NoTerms} :
            (Len(offers') > Len(offers) => NewRow.lease_id = l /\ NewRow.terms.present = t.present)
            => \A in \in InitiateInputs :
                  (in.confidence < 65 /\ InitiateLeaseRenewal(l, t, in)) =>
                     /\ out'.proposals = <<>>
                     /\ ~out'.sent
                     /\ in.fail # "insert" =>
                           /\ Len(offers') = Len(offers) + 1
                           /\ NewRow.status = "pending"
                           /\ NewRow.sent_at = NULL
                     /\ out'.raised = NONE => out'.requires_approval]_vars

\* a low-confidence call returned: the offer is stored unsent and flagged
C14_Witness ==
    /\ out.op = "initiate"
    /\ out.requires_approval
    /\ out.offer # 0
    /\ offers[out.offer].sent_at = NULL
    /\ leases[offers[out.offer].lease_id].whatsapp

\* C15: the offer an initiate call stores has a non-null sent_at exactly when the
\* gate was open, the tenant has a WhatsApp number or an e-mail address, and the
\* send on that channel succeeded; sent_at is then the time of the call.
C15_SentAtIffDelivered ==
    [][out'.op = "initiate" =>
         \A l \in LeaseIds, t \in TermsSet \cup {NoTerms} :
            (Len(offers') > Len(offers) /\ NewRow.lease_id = l /\ NewRow.terms.present = t.present)
            => \A in \in InitiateInputs :
                  InitiateLeaseRenewal(l, t, in) =>
                     /\ NewRow.sent_at # NULL <=>
                           /\ in.confidence >= 65
                           /\ leases[l].whatsapp \/ leases[l].email
                           /\ in.send_ok
                     /\ NewRow.sent_at # NULL =>
                           /\ NewRow.sent_at = now
                           /\ Len(out'.proposals) = 1
                           /\ out'.proposals[1].lease_id = l
                           /\ out'.proposals[1].delivered
                     /\ NewRow.channel = "in_app" => out'.proposals = <<>>]_vars

\* an offer was stored unsent for a tenant without any contact, gate open
C15_Witness ==
    /\ out.op = "initiate"
    /\ out.offer # 0
    /\ ~out.requires_approval
    /\ out.raised = NONE
    /\ offers[out.offer].channel = "in_app"
    /\ offers[out.offer].sent_at = NULL

\* C16: no offer row is ever stored with a proposed_rent below the floor of the
\* landlord terms it was initiated with.
C16_NeverStoredBelowFloor ==
    \A o \in OfferIds :
        offers[o].terms.present =>
            offers[o].proposed_rent >= offers[o].terms.min_acceptable_rent

\* ---- the sweep's failure claims (SpecWorkflow) ---------------------------------------
\* x is an element of the list xs
In(x, xs) == \E k \in 1..Len(xs) : xs[k] = x

\* the offer is in the follow-up case when the sweep starts
FollowUpCase(o) ==
    /\ offers[o].status = "pending"
    /\ offers[o].sent_at # NULL
    /\ offers[o].sent_at <= now - followup_days_no_response
    /\ offers[o].follow_up_count = 0

\* the lease is in the initiate case when the sweep starts
InitiateCase(l) ==
    /\ leases[l].status = "active"
    /\ leases[l].end_date >= now + 85
    /\ leases[l].end_date <= now + 95
    /\ \A o \in OfferIds : offers[o].lease_id # l

\* C12: a failure in the processing of one lease or offer does not abort the
\* sweep: the sweep returns its summary, and every lease in the initiate case is
\* processed (listed as initiated or as errored) in the same run.
C12_SweepNeverAborts ==
    [][out'.op = "sweep" =>
          /\ out'.raised = NONE
          /\ \A l \in LeaseIds :
                InitiateCase(l) => In(l, out'.initiated) \/ In(l, out'.errors)]_vars

\* C13: in a sweep that returns, every lease or offer whose step was due is
\* listed either under its branch (initiated, followed_up, auto_listed) or under
\* errors, and it is listed under its branch only if the step's writes were made.
C13_FailuresRecorded ==
    [][(out'.op = "sweep" /\ out'.raised = NONE) =>
          /\ \A l \in LeaseIds :
                /\ InitiateCase(l) => (In(l, out'.initiated) # In(l, out'.errors))
                /\ In(l, out'.initiated) => \E i \in 1..Len(offers') : offers'[i].lease_id = l
          /\ \A o \in OfferIds :
                /\ AutoListCase(o) =>
                      (In(offers[o].lease_id, out'.auto_listed) # Errored(o))
                /\ FollowUpCase(o) /\ ~AutoListCase(o) =>
                      (In(o, out'.followed_up) \/ Errored(o))
                /\ In(o, out'.followed_up) => offers'[o].follow_up_count = 1
                /\ (AutoListCase(o) /\ In(offers[o].lease_id, out'.auto_listed))
                      => offers'[o].status = "expired"]_vars

C18_RelistedExactlyOnce ==
    [][(out'.op = "analyse" /\ logs' # logs /\ offers'[out'.offer].status = "rejected")
          => out'.relisted = <<offers[out'.offer].lease_id>>]_vars

\* C19: a processed message appends one OutcomeFeedback row for the offer, with
\* outcome renewed when conclude_deal holds and churned when trigger_relisting
\* holds without it, and appends no row otherwise; a message that leaves the
\* offer pending or countered appends none.
C19_FeedbackIffConcluded ==
    [][out'.op = "analyse" =>
         \A a \in AnalysedWith :
            /\ feedback' =
                  IF a.conclude_deal
                  THEN Append(feedback, [renewal_offer_id |-> out'.offer, outcome |-> "renewed"])
                  ELSE IF a.trigger_relisting
                  THEN Append(feedback, [renewal_offer_id |-> out'.offer, outcome |-> "churned"])
                  ELSE feedback
            /\ offers'[out'.offer].status \in {"pending", "countered"} => feedback' = feedback]_vars

\* a message with trigger_relisting left the offer rejected and a churned row
C19_Witness ==
    /\ out.op = "analyse"
    /\ offers[out.offer].status = "rejected"
    /\ feedback # <<>>
    /\ feedback[Len(feedback)] = [renewal_offer_id |-> out.offer, outcome |-> "churned"]

\* ---- the negotiation log (SpecRepliesFailing) -----------------------------------------
\* the log row of a message processed against offer o
RowOf(o) == [renewal_offer_id |-> o, landlord_decision |-> NONE]

C21_LogRowsImmutable ==
    [][/\ Len(logs') >= Len(logs)
       /\ \A i \in 1..Len(logs) : logs'[i] = logs[i]]_vars

\* ---- renewal_prediction_service: the feature extractors ---------------------
\* A score is an integer number of 1/ScoreUnit (ScoreUnit = 1.0); every quotient
\* of the modelled inputs is a whole number of units, so that the only
\* inexactness left is the one of the floating-point sum (FloatErr).
ScoreUnit == 2160
\* the weights, in hundredths
weight_payment_history == 30
weight_maintenance_freq == 15
weight_lease_duration == 15
weight_market_delta == 25
weight_days_late_avg == 15
\* a weighted sum counts 1/ProbUnit
ProbUnit == ScoreUnit * 100

Max(a, b) == IF a >= b THEN a ELSE b
Min(a, b) == IF a <= b THEN a ELSE b

RECURSIVE Sum(_)
Sum(xs) == IF xs = <<>> THEN 0 ELSE Head(xs) + Sum(Tail(xs))

\* a payment row: status, paid_at (or updated_at) and due_date as days
_is_late(payment) ==
    IF payment.paid_at = NULL \/ payment.due_date = NULL THEN FALSE
    ELSE payment.paid_at > payment.due_date

OnTime(p) == p.status = "paid" /\ ~_is_late(p)

_payment_history_score(payments) ==
    IF payments = <<>> THEN ScoreUnit \div 2
    ELSE (ScoreUnit * Len(SelectSeq(payments, OnTime))) \div Len(payments)

\* a faulty variant of LateScore: the average delay is not capped at 30 days
LateScore_Unclamped(avg_delay_num, n) == ScoreUnit - (ScoreUnit * avg_delay_num) \div (n * 30)

\* max(0.0, 1.0 - avg_delay / 30.0), avg_delay = avg_delay_num / n
LateScore(avg_delay_num, n) ==
    Max(0, ScoreUnit - (ScoreUnit * avg_delay_num) \div (n * 30))

_avg_days_late_score(payments) ==
    LET late_payments == SelectSeq(payments, _is_late)
        delays == [i \in 1..Len(late_payments) |->
                      Max(0, late_payments[i].paid_at - late_payments[i].due_date)]
    IN  IF late_payments = <<>> THEN ScoreUnit
        ELSE LateScore(Sum(delays), Len(delays))

\* requests is the number of maintenance rows of the lease; lease_months counts
\* hundredths of a month
_maintenance_frequency_score(requests, lease_months) ==
    IF lease_months <= 0 THEN ScoreUnit \div 2
    ELSE Max(0, ScoreUnit - (ScoreUnit * requests * 100) \div (lease_months * 3))

_lease_duration_score(lease_months) == Min(ScoreUnit, (ScoreUnit * lease_months) \div 3600)

\* rents in thousandths of a euro as everywhere (whole euros here); 0.15 is
\* ScoreUnit * 15 / 100
_market_delta_score(current_rent, market_rent) ==
    IF market_rent <= 0 THEN ScoreUnit \div 2
    ELSE LET band == (ScoreUnit * 15) \div 100
             delta_pct == (ScoreUnit * ((market_rent - current_rent) \div 1000))
                              \div (market_rent \div 1000)
             clamped == Max(-band, Min(band, delta_pct))
         IN  ((clamped + band) * ScoreUnit) \div (2 * band)

\* ---- compute_renewal_probability ---------------------------------------------
\* The weighted sum and 1.0 - renewal_probability are IEEE-754 doubles: each is
\* the real-number value displaced by a rounding error far below any
\* resolution, of a sign that depends on the binary expansions of the weights
\* and scores.  A value is carried as the exact number of 1/ProbUnit together with the
\* sign of that error (-1 below, 0 exact, 1 above).
FloatErr == {-1, 0, 1}

\* round(x, 4) of the double x/ProbUnit displaced by e: the nearest ten-thousandth,
\* an exact half to the even neighbour
Round4(x, e) ==
    LET d == ProbUnit \div 2000
        q == (x * 5) \div d
        r == (x * 5) % d
        h == d \div 2
    IN  IF r < h THEN q
        ELSE IF r > h THEN q + 1
        ELSE IF e < 0 THEN q
        ELSE IF e > 0 THEN q + 1
        ELSE IF q % 2 = 0 THEN q ELSE q + 1

\* churn_probability = 1.0 - renewal_probability: the subtraction is exact from
\* 0.5 upwards (the operands are within a factor of two) and rounds to the
\* coarser grid of [0.5, 1) below it
Churn(renewal_probability, e) ==
    [value |-> ProbUnit - renewal_probability,
     err |-> IF 2 * renewal_probability >= ProbUnit THEN -e[1] ELSE e[2]]

\* confidence_score = 0.4 + 0.6 * min(1.0, len(payments) / 12.0), in
\* ten-thousandths
confidence_score(payments) == 4000 + 500 * Min(12, Len(payments))

\* e = <<error of the weighted sum, error of the complement>>
compute_renewal_probability(payments, requests, lease_months, current_rent, market_rent, e) ==
    LET feature_scores ==
            [payment_history |-> _payment_history_score(payments),
             days_late_avg |-> _avg_days_late_score(payments),
             maintenance_freq |-> _maintenance_frequency_score(requests, lease_months),
             lease_duration |-> _lease_duration_score(lease_months),
             market_delta |-> _market_delta_score(current_rent, market_rent)]
        weighted_sum ==
              feature_scores.payment_history * weight_payment_history
            + feature_scores.days_late_avg * weight_days_late_avg
            + feature_scores.maintenance_freq * weight_maintenance_freq
            + feature_scores.lease_duration * weight_lease_duration
            + feature_scores.market_delta * weight_market_delta
        renewal_probability == Max(0, Min(ProbUnit, weighted_sum))
        \* a clamped value is the exact double 0.0 or 1.0
        err == IF weighted_sum <= 0 \/ weighted_sum >= ProbUnit THEN 0 ELSE e[1]
        churn_probability == Churn(renewal_probability, <<err, e[2]>>)
    IN  [renewal_probability |-> Round4(renewal_probability, err),
         churn_probability |-> Round4(churn_probability.value, churn_probability.err),
         confidence_score |-> confidence_score(payments),
         feature_scores |-> feature_scores]

\* ---- score_lease: the features of one lease -------------------------------------
\* lease_months = max(1.0, (today - start).days / 30.44), 12.0 without a start
\* date; in hundredths of a month
LeaseMonthsOf(start_date, today) ==
    IF start_date = NULL THEN 1200
    ELSE Max(100, ((today - start_date) * 10000) \div 3044)

\* market_rent defaults to 5% above the current rent
MarketRentOf(current_rent, market_rent) ==
    IF market_rent = NULL THEN (current_rent * 105) \div 100 ELSE market_rent

\* the result of compute_renewal_probability for a lease row with its payments
\* and tickets
ScoreOf(row, today, market_rent, e) ==
    compute_renewal_probability(row.payments, row.maintenance_requests,
        LeaseMonthsOf(row.start_date, today), row.monthly_rent,
        MarketRentOf(row.monthly_rent, market_rent), e)

\* ---- the scoring functions on their inputs -------------------------------------
MaxPayments == 2
Today == 800
PaymentKinds ==
    {[status |-> "paid", paid_at |-> 10, due_date |-> 10],
     [status |-> "pending", paid_at |-> NULL, due_date |-> 10],
     [status |-> "paid", paid_at |-> 25, due_date |-> 10],
     [status |-> "paid", paid_at |-> 55, due_date |-> 10]}
PaymentLists == UNION {[1..n -> PaymentKinds] : n \in 0..MaxPayments}
RequestCounts == {0, 3, 120}
\* no start date, two years ago, next month
StartDates == {NULL, 70, 830}
MonthlyRents == {0, 1000000, 1200000}
\* the lease_months and market_rent arguments
LeaseMonths == {100, 2400, 4800}
MarketRents == {0, 1000000}

\* a lease row joined with its payments and its number of tickets
LedgerRows ==
    [payments : PaymentLists, maintenance_requests : RequestCounts,
     start_date : StartDates, monthly_rent : MonthlyRents]

InitScoring ==
    /\ now = Today
    /\ leases = <<>>
    /\ offers = <<>>
    /\ logs = <<>>
    /\ feedback = <<>>
    /\ out = [op |-> "none"]
    /\ ledger \in LedgerRows
    /\ scores = <<>>
    /\ scenarios = <<>>
    /\ calls = <<>>

ComputeRenewalProbability(lease_months, market_rent, e) ==
    /\ out' = [op |-> "compute_renewal_probability",
               result |-> compute_renewal_probability(ledger.payments,
                              ledger.maintenance_requests, lease_months,
                              ledger.monthly_rent, market_rent, e)]
    /\ UNCHANGED <<now, leases, offers, logs, feedback, analytics>>

\* the scoring step of score_lease
ScoreFeatures(market_rent, e) ==
    /\ out' = [op |-> "score_lease", result |-> ScoreOf(ledger, now, market_rent, e)]
    /\ UNCHANGED <<now, leases, offers, logs, feedback, analytics>>

NextScoring ==
    \/ \E m \in LeaseMonths, mr \in MarketRents, e \in FloatErr \X FloatErr :
          ComputeRenewalProbability(m, mr, e)
    \/ \E mr \in MarketRents \cup {NULL}, e \in FloatErr \X FloatErr :
          ScoreFeatures(mr, e)

SpecScoring == InitScoring /\ [][NextScoring]_vars

\* C22: for every input to compute_renewal_probability, the returned
\* renewal_probability and churn_probability (ten-thousandths, each rounded on
\* its own) sum to exactly 1.
C22_ProbabilitiesSumToOne ==
    out.op = "compute_renewal_probability" =>
        out.result.renewal_probability + out.result.churn_probability = 10000

\* C23: for the features score_lease passes on (any payment list, any ticket
\* count, lease_months >= 1, non-negative rents) each of the five sub-scores
\* lies in [0, 1]; an empty payment history scores 0.5 and a history without a
\* late payment scores 1.0 on days late.
C23_SubScoresInRange ==
    out.op \in {"score_lease", "compute_renewal_probability"} =>
        LET f == out.result.feature_scores
            ps == ledger.payments
        IN  /\ \A k \in DOMAIN f : 0 <= f[k] /\ f[k] <= ScoreUnit
            /\ ps = <<>> => f.payment_history = ScoreUnit \div 2
            /\ (\A i \in 1..Len(ps) : ps[i].paid_at = NULL \/ ps[i].paid_at <= ps[i].due_date)
                  => f.days_late_avg = ScoreUnit

\* a lease scored with payments 45 days late on average, 120 tickets and a rent
\* far below the market: three sub-scores sit on their clamps
C23_Witness ==
    /\ out.op = "score_lease"
    /\ \E i \in 1..Len(ledger.payments) :
          ledger.payments[i].paid_at - ledger.payments[i].due_date > 30
    /\ out.result.feature_scores.days_late_avg = 0
    /\ out.result.feature_scores.maintenance_freq = 0
    /\ out.result.feature_scores.market_delta = ScoreUnit

\* ---- renewal_pricing_engine: the revenue formula -------------------------------
\* tenths of a month
avg_vacancy_months == 15
\* thousandths of a euro
turnover_cost_fixed == 1500000
\* tenths
turnover_cost_letting_fee_multiplier == 5
\* thousandths per percent of increase
base_elasticity == 35
min_increase_pct == 0
max_increase_pct == 15
increase_step == 1

\* Probabilities count ten-thousandths, rents thousandths of a euro and revenues
\* ten-thousandths of a euro.  The modelled rents are whole hundreds of euros and
\* the market deltas whole multiples of 2%, which keeps every product below
\* exact at this resolution.
_compute_turnover_cost(current_rent) ==
    turnover_cost_fixed + (current_rent * turnover_cost_letting_fee_multiplier) \div 10

\* (market_rent - current_rent) / max(current_rent, 1.0), in thousandths
MarketDeltaPct(current_rent, market_rent) ==
    ((market_rent - current_rent) * 1000) \div Max(current_rent, 1000)

_apply_elasticity(base_renewal_prob, increase_pct, market_delta_pct) ==
    LET \* millionths per percent, never below 0.01
        elasticity == Max(10000, base_elasticity * (1000 - market_delta_pct))
        adjusted == base_renewal_prob - (elasticity * increase_pct) \div 100
    IN  Max(0, Min(10000, adjusted))

_expected_revenue(new_rent, renewal_probability, market_rent, turnover_cost) ==
    LET churn_prob == 10000 - renewal_probability
        renewal_revenue == renewal_probability * ((new_rent * 12) \div 1000)
        churn_revenue ==
            churn_prob * (((market_rent * (120 - avg_vacancy_months)) \div 10
                              - turnover_cost) \div 1000)
    IN  renewal_revenue + churn_revenue

\* thresholds 0.30 and 0.60 on the churn probability
_risk_label(churn_probability) ==
    IF churn_probability < 3000 THEN "low"
    ELSE IF churn_probability < 6000 THEN "moderate"
    ELSE "high"

\* round(x, 2) of an amount in ten-thousandths of a euro: cents, halves to even
RoundCents(x) ==
    LET q == x \div 100
        r == x % 100
    IN  IF r < 50 THEN q
        ELSE IF r > 50 THEN q + 1
        ELSE IF q % 2 = 0 THEN q ELSE q + 1

\* ---- simulate_scenarios -----------------------------------------------------------
\* the increases visited by the while loop
IncreaseSteps ==
    [i \in 1..((max_increase_pct - min_increase_pct) \div increase_step + 1) |->
        min_increase_pct + (i - 1) * increase_step]

\* a faulty variant of Best: every scenario that reaches the maximum is marked
Best_AllMaxima(evs) == {i \in DOMAIN evs : \A j \in DOMAIN evs : evs[j] <= evs[i]}

\* max(scenarios, key=expected_value): the first scenario that reaches the maximum
Best(evs) ==
    {CHOOSE i \in DOMAIN evs :
        /\ \A j \in DOMAIN evs : evs[j] <= evs[i]
        /\ \A j \in 1..(i - 1) : evs[j] < evs[i]}

simulate_scenarios(base_renewal_prob, current_rent, market_rent, lease_id, score_id) ==
    LET market_delta_pct == MarketDeltaPct(current_rent, market_rent)
        turnover_cost == _compute_turnover_cost(current_rent)
        row(increase) ==
            LET new_rent == (current_rent * (100 + increase)) \div 100
                adj_renewal_prob == _apply_elasticity(base_renewal_prob, increase,
                                                      market_delta_pct)
                adj_churn_prob == 10000 - adj_renewal_prob
                ev == _expected_revenue(new_rent, adj_renewal_prob, market_rent,
                                        turnover_cost)
            IN  [lease_id |-> lease_id,
                 renewal_score_id |-> score_id,
                 increase_pct |-> increase,
                 projected_renewal_probability |-> adj_renewal_prob,
                 turnover_cost_estimate |->
                     RoundCents((turnover_cost \div 1000) * adj_churn_prob),
                 expected_value |-> RoundCents(ev),
                 risk_label |-> _risk_label(adj_churn_prob),
                 is_recommended |-> FALSE]
        rows == [i \in DOMAIN IncreaseSteps |-> row(IncreaseSteps[i])]
        best == Best([i \in DOMAIN rows |-> rows[i].expected_value])
    IN  [i \in DOMAIN rows |-> [rows[i] EXCEPT !.is_recommended = i \in best]]

\* ---- the simulation on its inputs -------------------------------------------------
BaseProbabilities == {0, 2500, 5000, 7500, 9000, 10000}
SimulatedRents == {0, 1000000, 2000000}
SimulatedMarkets == {0, 800000, 1000000, 1200000}

\* the part of a score that the simulation reads
SimulationInputs ==
    [renewal_probability : BaseProbabilities, current_rent : SimulatedRents,
     market_rent : SimulatedMarkets]

InitSimulation ==
    /\ now = 0
    /\ leases = <<>>
    /\ offers = <<>>
    /\ logs = <<>>
    /\ feedback = <<>>
    /\ out = [op |-> "none"]
    /\ ledger \in SimulationInputs
    /\ scores = <<>>
    /\ scenarios = <<>>
    /\ calls = <<>>

SimulateScenarios ==
    /\ out' = [op |-> "simulate_scenarios",
               result |-> simulate_scenarios(ledger.renewal_probability,
                              ledger.current_rent, ledger.market_rent, "L1", NULL)]
    /\ UNCHANGED <<now, leases, offers, logs, feedback, analytics>>

NextSimulation == SimulateScenarios

SpecSimulation == InitSimulation /\ [][NextSimulation]_vars

C25_ExampleRecommendsAnIncrease ==
    (/\ out.op = "simulate_scenarios"
     /\ ledger = [renewal_probability |-> 7500, current_rent |-> 1000000,
                  market_rent |-> 1000000]) =>
        LET s == out.result
        IN  /\ s[1].increase_pct = 0
            /\ \A i \in 2..Len(s) : s[1].increase_pct < s[i].increase_pct
            /\ s[1].projected_renewal_probability < 10000
            /\ s[1].turnover_cost_estimate > 0
            /\ \A i \in 1..Len(s) :
                  s[i].is_recommended => s[i].increase_pct > 0 /\ s[i].increase_pct <= 15

\* ---- score_lease and run_pricing_simulation against the tables -----------------
\* Every .execute() is one request to the database and commits on its own; the
\* runs of two workers interleave between their requests.
MaxScores == 3
Runs == {1, 2}
UnknownLease == "L9"
IdleRun == [pc |-> "idle", lease_id |-> NONE, score_id |-> 0, scenarios |-> <<>>]
SimulationMarkets == {1000000, 1200000}

\* one lease with its payments and tickets
PricingLedgers ==
    {[L1 |-> r] : r \in
        {[payments |-> <<>>, maintenance_requests |-> 0, start_date |-> NULL,
          monthly_rent |-> 1000000],
         [payments |-> <<[status |-> "paid", paid_at |-> 10, due_date |-> 10]>>,
          maintenance_requests |-> 3, start_date |-> 70, monthly_rent |-> 1000000]}}

\* the row inserted into renewal_scores
ScoreRow(lease_id, result) ==
    [lease_id |-> lease_id,
     renewal_probability |-> result.renewal_probability,
     churn_probability |-> result.churn_probability,
     confidence_score |-> result.confidence_score,
     recommended_increase_pct |-> 0]

\* a faulty variant of Scored: a row is inserted before the lease is looked up
Scored_InsertFirst(scs, led, today, lease_id, market_rent, e) ==
    IF lease_id \notin DOMAIN led
    THEN [found |-> FALSE,
          scores |-> Append(scs, [lease_id |-> lease_id, renewal_probability |-> 0,
                                  churn_probability |-> 0, confidence_score |-> 0,
                                  recommended_increase_pct |-> 0])]
    ELSE LET result == ScoreOf(led[lease_id], today, market_rent, e)
         IN  [found |-> TRUE,
              scores |-> Append(scs, ScoreRow(lease_id, result)),
              score_id |-> Len(scs) + 1,
              renewal_probability |-> result.renewal_probability,
              current_rent |-> led[lease_id].monthly_rent,
              market_rent |-> MarketRentOf(led[lease_id].monthly_rent, market_rent)]

\* score_lease on the score table: the lease is looked up first (ValueError when
\* it is missing), the row is inserted last; score_id is the new row's id
Scored(scs, led, today, lease_id, market_rent, e) ==
    IF lease_id \notin DOMAIN led
    THEN [found |-> FALSE, scores |-> scs]
    ELSE LET result == ScoreOf(led[lease_id], today, market_rent, e)
         IN  [found |-> TRUE,
              scores |-> Append(scs, ScoreRow(lease_id, result)),
              score_id |-> Len(scs) + 1,
              renewal_probability |-> result.renewal_probability,
              current_rent |-> led[lease_id].monthly_rent,
              market_rent |-> MarketRentOf(led[lease_id].monthly_rent, market_rent)]

Recommended(scs) == scs[CHOOSE i \in DOMAIN scs : scs[i].is_recommended]

\* the scenario rows of a lease
ScenariosOf(lease_id) == SelectSeq(scenarios, LAMBDA s : s.lease_id = lease_id)

\* sb.table("renewal_scenarios").delete().eq("lease_id", lease_id)
Deleted(lease_id) == SelectSeq(scenarios, LAMBDA s : s.lease_id # lease_id)

\* the tables after one complete run for L1
PricedOnce ==
    /\ ledger \in PricingLedgers
    /\ \E m \in SimulationMarkets :
          \E s \in {Scored(<<>>, ledger, Today, "L1", m, <<0, 0>>)} :
             \E sim \in {simulate_scenarios(s.renewal_probability, s.current_rent,
                                            s.market_rent, "L1", s.score_id)} :
                /\ scenarios = sim
                /\ scores = [s.scores EXCEPT ![s.score_id].recommended_increase_pct =
                                                 Recommended(sim).increase_pct]
    /\ calls = [r \in Runs |-> IdleRun]

InitPricing ==
    /\ now = Today
    /\ leases = <<>>
    /\ offers = <<>>
    /\ logs = <<>>
    /\ feedback = <<>>
    /\ out = [op |-> "none", raised |-> NONE]
    /\ PricedOnce

\* score_lease on its own
ScoreLease(lease_id, market_rent, e) ==
    /\ lease_id \in DOMAIN ledger => Len(scores) < MaxScores
    /\ \E s \in {Scored(scores, ledger, now, lease_id, market_rent, e)} :
          /\ scores' = s.scores
          /\ out' = [op |-> "score_lease", lease_id |-> lease_id,
                     raised |-> IF s.found THEN NONE ELSE "not_found"]
    /\ UNCHANGED <<now, leases, offers, logs, feedback, ledger, scenarios, calls>>

\* run_pricing_simulation up to its delete: score_lease, then simulate_scenarios
RunScore(r, lease_id, market_rent, e) ==
    /\ calls[r].pc = "idle"
    /\ lease_id \in DOMAIN ledger => Len(scores) < MaxScores
    /\ \E s \in {Scored(scores, ledger, now, lease_id, market_rent, e)} :
          /\ scores' = s.scores
          /\ IF s.found
             THEN /\ calls' = [calls EXCEPT ![r] =
                        [pc |-> "delete", lease_id |-> lease_id, score_id |-> s.score_id,
                         scenarios |-> simulate_scenarios(s.renewal_probability,
                                           s.current_rent, s.market_rent, lease_id,
                                           s.score_id)]]
                  /\ out' = [op |-> "scored", lease_id |-> lease_id, raised |-> NONE]
             ELSE /\ UNCHANGED calls
                  /\ out' = [op |-> "run_pricing_simulation", lease_id |-> lease_id,
                             raised |-> "not_found"]
    /\ UNCHANGED <<now, leases, offers, logs, feedback, ledger, scenarios>>

\* the delete request; a request that fails raises out of the run
RunDelete(r, ok) ==
    /\ calls[r].pc = "delete"
    /\ IF ok
       THEN /\ scenarios' = Deleted(calls[r].lease_id)
            /\ calls' = [calls EXCEPT ![r].pc = "insert"]
            /\ out' = [op |-> "deleted", lease_id |-> calls[r].lease_id, raised |-> NONE]
       ELSE /\ calls' = [calls EXCEPT ![r] = IdleRun]
            /\ out' = [op |-> "run_pricing_simulation", lease_id |-> calls[r].lease_id,
                       raised |-> "error"]
            /\ UNCHANGED scenarios
    /\ UNCHANGED <<now, leases, offers, logs, feedback, ledger, scores>>

\* the insert request
RunInsert(r, ok) ==
    /\ calls[r].pc = "insert"
    /\ IF ok
       THEN /\ scenarios' = scenarios \o calls[r].scenarios
            /\ calls' = [calls EXCEPT ![r].pc = "update"]
            /\ out' = [op |-> "inserted", lease_id |-> calls[r].lease_id, raised |-> NONE]
       ELSE /\ calls' = [calls EXCEPT ![r] = IdleRun]
            /\ out' = [op |-> "run_pricing_simulation", lease_id |-> calls[r].lease_id,
                       raised |-> "error"]
            /\ UNCHANGED scenarios
    /\ UNCHANGED <<now, leases, offers, logs, feedback, ledger, scores>>

\* the update of the score row, and the return
RunUpdate(r) ==
    /\ calls[r].pc = "update"
    /\ scores' = [scores EXCEPT ![calls[r].score_id].recommended_increase_pct =
                                    Recommended(calls[r].scenarios).increase_pct]
    /\ calls' = [calls EXCEPT ![r] = IdleRun]
    /\ out' = [op |-> "run_pricing_simulation", lease_id |-> calls[r].lease_id,
               raised |-> NONE]
    /\ UNCHANGED <<now, leases, offers, logs, feedback, ledger, scenarios>>

NextPricing ==
    \/ \E l \in {"L1", UnknownLease}, m \in SimulationMarkets, e \in FloatErr \X FloatErr :
          ScoreLease(l, m, e)
    \/ \E r \in Runs, l \in {"L1", UnknownLease}, m \in SimulationMarkets,
          e \in FloatErr \X FloatErr : RunScore(r, l, m, e)
    \/ \E r \in Runs, ok \in BOOLEAN : RunDelete(r, ok)
    \/ \E r \in Runs, ok \in BOOLEAN : RunInsert(r, ok)
    \/ \E r \in Runs : RunUpdate(r)

SpecPricing == InitPricing /\ [][NextPricing]_vars

\* C26: the persisted scenario set of a lease is at every moment the complete
\* set of one single run (sixteen rows of one score, one for each increase,
\* exactly one recommended): never empty after a delete, never the union of
\* two runs.
C26_ScenarioSetAtomic ==
    LET s == ScenariosOf("L1")
    IN  /\ Len(s) = Len(IncreaseSteps)
        /\ \A i \in 1..Len(s) :
              /\ s[i].renewal_score_id = s[1].renewal_score_id
              /\ s[i].increase_pct = IncreaseSteps[i]
        /\ Cardinality({i \in 1..Len(s) : s[i].is_recommended}) = 1

\* ---- two analyse_tenant_response calls in flight ---------------------------------
\* A call fetches the offer, suspends at `await _analyse_with_claude(prompt)` and
\* resumes with the analysis; the event loop runs the other call in between.
Calls == {1, 2}
IdleCall == [pc |-> "idle", offer_id |-> 0, seen |-> NONE, a |-> NONE, found |-> NONE]

\* the three tables after the writes of a call that fetched the row `seen`
Replied(st, offer_id, a, seen) ==
    LET c == Checked(seen, a)
    IN  [offers |-> [st.offers EXCEPT ![offer_id] =
                        OfferUpdate(@, NewStatus(a, c.escalate_to_landlord),
                                    c.suggested_counter_rent)],
         logs |-> Append(st.logs, [renewal_offer_id |-> offer_id,
                                   landlord_decision |-> NONE]),
         feedback |-> IF Outcome(a) # NONE
                      THEN Append(st.feedback, [renewal_offer_id |-> offer_id,
                                                outcome |-> Outcome(a)])
                      ELSE st.feedback]

\* the analyses of the two calls: the classifier neither relists nor escalates
ConcurrentAnalyses ==
    {a \in Analyses : ~a.trigger_relisting /\ ~a.escalate_to_landlord}

InitConcurrent ==
    /\ now = 0
    /\ leases \in NegotiationLeases
    /\ \E t \in TermsSet \cup {NoTerms} :
          offers = InitiateRenewal(<<>>, "L1", t, Dispatched).offers
    /\ logs = <<>>
    /\ feedback = <<>>
    /\ out = EmptyOut
    /\ ledger = <<>>
    /\ scores = <<>>
    /\ scenarios = <<>>
    /\ calls = [c \in Calls |-> IdleCall]

\* the fetch of the offer with its lease, up to the await
CallFetch(c, offer_id) ==
    /\ calls[c].pc = "idle"
    /\ offer_id \in 1..Len(offers)
    /\ calls' = [calls EXCEPT ![c] = [IdleCall EXCEPT !.pc = "analysing",
                                                      !.offer_id = offer_id,
                                                      !.seen = offers[offer_id]]]
    /\ out' = [EmptyOut EXCEPT !.op = "fetched", !.offer = offer_id]
    /\ UNCHANGED <<now, leases, offers, logs, feedback, ledger, scores, scenarios>>

\* the rest of the call, from the analysis to the return
CallResume(c, a) ==
    /\ calls[c].pc = "analysing"
    /\ \E r \in {Replied([offers |-> offers, logs |-> logs, feedback |-> feedback],
                         calls[c].offer_id, a, calls[c].seen)} :
          /\ offers' = r.offers
          /\ logs' = r.logs
          /\ feedback' = r.feedback
    /\ calls' = [calls EXCEPT ![c].pc = "done", ![c].a = a,
                              ![c].found = offers[calls[c].offer_id]]
    /\ out' = [EmptyOut EXCEPT !.op = "analyse", !.offer = calls[c].offer_id,
                               !.escalate = Checked(calls[c].seen, a).escalate_to_landlord,
                               !.counter = Checked(calls[c].seen, a).suggested_counter_rent]
    /\ UNCHANGED <<now, leases, ledger, scores, scenarios>>

NextConcurrent ==
    \/ \E c \in Calls, o \in 1..MaxOffers : CallFetch(c, o)
    \/ \E c \in Calls, a \in ConcurrentAnalyses : CallResume(c, a)

SpecConcurrent == InitConcurrent /\ [][NextConcurrent]_vars

\* the tables after the two calls ran one after the other, first then second
Serial(first, second) ==
    LET st0 == [offers |-> InitiateRenewal(<<>>, "L1", offers[1].terms, Dispatched).offers,
                logs |-> <<>>, feedback |-> <<>>]
        st1 == Replied(st0, calls[first].offer_id, calls[first].a,
                       st0.offers[calls[first].offer_id])
    IN  Replied(st1, calls[second].offer_id, calls[second].a,
                st1.offers[calls[second].offer_id])

\* C27: two concurrent analyse_tenant_response calls on one offer leave the offer
\* row, the log rows and the feedback rows of some serial execution of the two,
\* and each call decides against the row as it is when the call writes.
C27_RepliesSerialized ==
    (\A c \in Calls : calls[c].pc = "done") =>
        /\ \E p \in {<<1, 2>>, <<2, 1>>} :
              [offers |-> offers, logs |-> logs, feedback |-> feedback]
                  = Serial(p[1], p[2])
        /\ \A c \in Calls :
              /\ calls[c].seen.proposed_rent = calls[c].found.proposed_rent
              /\ calls[c].seen.status = calls[c].found.status

\* ---- calls for an id the store does not hold -------------------------------------
\* initiate_renewal for a lease id without a row: ValueError before the pricing
\* simulation, HTTP 404
InitiateUnknownLease(lease_id) ==
    /\ lease_id \notin DOMAIN leases
    /\ out' = [op |-> "initiate_renewal", lease_id |-> lease_id,
               raised |-> "not_found", notified |-> <<>>]
    /\ UNCHANGED <<now, leases, offers, logs, feedback, analytics>>

\* one dispatched offer, and the score and scenarios of one pricing run
InitLookups ==
    /\ now = Today
    /\ leases \in NegotiationLeases
    /\ \E t \in TermsSet \cup {NoTerms} :
          offers = InitiateRenewal(<<>>, "L1", t, Dispatched).offers
    /\ logs = <<>>
    /\ feedback = <<>>
    /\ out = [op |-> "none", raised |-> NONE]
    /\ PricedOnce

NextLookups ==
    \/ \E l \in {"L1", UnknownLease}, m \in SimulationMarkets, e \in FloatErr \X FloatErr :
          ScoreLease(l, m, e)
    \/ \E l \in {"L1", UnknownLease}, m \in SimulationMarkets, e \in FloatErr \X FloatErr :
          RunScore(1, l, m, e)
    \/ \E ok \in BOOLEAN : RunDelete(1, ok)
    \/ \E ok \in BOOLEAN : RunInsert(1, ok)
    \/ RunUpdate(1)
    \/ \E l \in {UnknownLease} : InitiateUnknownLease(l)
    \/ \E o \in 1..MaxOffers : AnalyseUnknownOffer(o)

SpecLookups == InitLookups /\ [][NextLookups]_vars

\* C28: score_lease, run_pricing_simulation and initiate_renewal for an unknown
\* lease id, and analyse_tenant_response for an unknown offer id, fail with
\* not-found and write nothing: no score row, no scenario delete or insert, no
\* offer, no landlord notification, no log, no offer update, no feedback.
C28_UnknownIdWritesNothing ==
    [][/\ (/\ out'.op \in {"score_lease", "run_pricing_simulation"}
           /\ out'.lease_id \notin DOMAIN ledger)
          => /\ out'.raised = "not_found"
             /\ UNCHANGED <<scores, scenarios, offers, logs, feedback>>
       /\ (/\ out'.op = "initiate_renewal"
           /\ out'.lease_id \notin DOMAIN leases)
          => /\ out'.raised = "not_found"
             /\ out'.notified = <<>>
             /\ UNCHANGED <<scores, scenarios, offers, logs, feedback>>
       /\ (/\ out'.op = "analyse_failed"
           /\ out'.offer \notin 1..Len(offers))
          => /\ out'.raised = "not_found"
             /\ UNCHANGED <<scores, scenarios, offers, logs, feedback>>]_vars

\* a pricing run for the unknown lease has failed on a store that holds a score
\* and a full scenario set
C28_Witness ==
    /\ out.op = "run_pricing_simulation"
    /\ out.lease_id = UnknownLease
    /\ out.raised = "not_found"
    /\ scores # <<>>
    /\ Len(scenarios) = Len(IncreaseSteps)

\* ---- analyse_tenant_response with its analysis collaborator ----------------------
\* which keyword lists of _fallback_analysis the tenant's message matches
Messages == [accept : BOOLEAN, decline : BOOLEAN, haggle : BOOLEAN]
PlainMessage == [accept |-> FALSE, decline |-> FALSE, haggle |-> FALSE]

_fallback_analysis(tenant_message, min_rent, proposed_rent) ==
    IF tenant_message.accept
    THEN [classification |-> "accepting", conclude_deal |-> TRUE,
          trigger_relisting |-> FALSE, escalate_to_landlord |-> FALSE,
          suggested_counter_rent |-> NULL, response_to_tenant |-> "template"]
    ELSE IF tenant_message.decline
    THEN [classification |-> "resistant", conclude_deal |-> FALSE,
          trigger_relisting |-> TRUE, escalate_to_landlord |-> FALSE,
          suggested_counter_rent |-> NULL, response_to_tenant |-> "template"]
    ELSE IF tenant_message.haggle
    THEN [classification |-> "negotiating", conclude_deal |-> FALSE,
          trigger_relisting |-> FALSE, escalate_to_landlord |-> FALSE,
          suggested_counter_rent |-> Max(min_rent, (proposed_rent * 97) \div 100),
          response_to_tenant |-> "template"]
    ELSE [classification |-> "unclear", conclude_deal |-> FALSE,
          trigger_relisting |-> FALSE, escalate_to_landlord |-> FALSE,
          suggested_counter_rent |-> NULL, response_to_tenant |-> "template"]

\* What _analyse_with_claude hands back:
\*   "failed"  the request or json.loads raised: {}
\*   "object"  a JSON object, with or without its response_to_tenant key
\*   "scalar"  valid JSON that is not an object (a non-empty list, a number, a string)
ObjectAnalyses ==
    {a \in Analyses : ~a.escalate_to_landlord /\ a.suggested_counter_rent \in {NULL, 960000}}
Unanswered == CHOOSE a \in ObjectAnalyses : a.classification = "unclear"
CollaboratorReplies ==
    {[kind |-> "failed", a |-> Unanswered, has_reply |-> FALSE],
     [kind |-> "scalar", a |-> Unanswered, has_reply |-> FALSE]}
    \cup [kind : {"object"}, a : ObjectAnalyses, has_reply : BOOLEAN]

\* the analysis after `if not analysis` and the setdefault calls
Analysis(reply, tenant_message, min_rent, proposed_rent) ==
    IF reply.kind = "failed"
    THEN _fallback_analysis(tenant_message, min_rent, proposed_rent)
    ELSE [reply.a EXCEPT !.response_to_tenant = IF reply.has_reply THEN @ ELSE ""]

\* _send_to_tenant: the send and the conversations insert fail independently
Deliveries == [send_ok : BOOLEAN, log_ok : BOOLEAN]

\* POST /offers/{offer_id}/respond
RecordTenantResponse(offer_id, tenant_message, reply, d) ==
    /\ offer_id \in 1..Len(offers)
    /\ Len(logs) < MaxLogs
    /\ LET offer == offers[offer_id]
           lease == leases[offer.lease_id]
           a == Analysis(reply, tenant_message, MinRent(offer), offer.proposed_rent)
           c == Checked(offer, a)
           response_text == c.response_to_tenant
           sent == AutoReply(offer, lease, response_text)
       IN  IF reply.kind = "scalar"
           THEN \* analysis.setdefault raises AttributeError, HTTP 500
                /\ out' = [collaborator |-> reply.kind, has_reply |-> FALSE,
                           delivered |-> FALSE, outbound |-> FALSE]
                          @@ [EmptyOut EXCEPT !.op = "analyse", !.offer = offer_id,
                                              !.raised = "error", !.failed = TRUE]
                /\ UNCHANGED <<offers, logs, feedback>>
           ELSE /\ \E r \in {Replied([offers |-> offers, logs |-> logs,
                                      feedback |-> feedback], offer_id, a, offer)} :
                      /\ offers' = r.offers
                      /\ logs' = r.logs
                      /\ feedback' = r.feedback
                /\ out' = [collaborator |-> reply.kind, has_reply |-> reply.has_reply,
                           delivered |-> sent /\ d.send_ok,
                           outbound |-> sent /\ d.log_ok]
                          @@ [EmptyOut EXCEPT
                                !.op = "analyse",
                                !.offer = offer_id,
                                !.escalate = c.escalate_to_landlord,
                                !.counter = c.suggested_counter_rent,
                                !.response = response_text,
                                !.sent = sent,
                                !.notified = LandlordNotice(offer.lease_id, a,
                                                            c.escalate_to_landlord),
                                !.relisted = IF lease.landlord /\ ~a.conclude_deal
                                                  /\ a.trigger_relisting
                                             THEN <<offer.lease_id>> ELSE <<>>]
    /\ UNCHANGED <<analytics, now, leases>>

NextCollaborator ==
    \/ \E o \in 1..MaxOffers, m \in Messages, d \in Deliveries :
          RecordTenantResponse(o, m, [kind |-> "failed", a |-> Unanswered,
                                      has_reply |-> FALSE], d)
    \/ \E o \in 1..MaxOffers, r \in CollaboratorReplies, d \in Deliveries :
          RecordTenantResponse(o, PlainMessage, r, d)

SpecCollaborator == InitNegotiation /\ [][NextCollaborator]_vars

C30_AlwaysACoherentReply ==
    (/\ out.op = "analyse"
     /\ \/ out.collaborator \in {"failed", "scalar"}
        \/ out.collaborator = "object" /\ ~out.has_reply) =>
        /\ out.raised = NONE
        /\ out.response # ""
        /\ (offers[out.offer].terms.auto_negotiate
               /\ leases[offers[out.offer].lease_id].whatsapp) => out.sent

\* ---- analyse_tenant_response on the keyword fallback -------------------------------
\* landlord terms whose floor is not a whole number of cents (the schema takes
\* any float above 0)
FineTerms == [present |-> TRUE, min_acceptable_rent |-> 1000004, auto_negotiate |-> TRUE]

InitFallback ==
    /\ now = 0
    /\ leases \in NegotiationLeases
    /\ \E t \in TermsSet \cup {NoTerms, FineTerms} :
          offers = InitiateRenewal(<<>>, "L1", t, Dispatched).offers
    /\ logs = <<>>
    /\ feedback = <<>>
    /\ out = EmptyOut
    /\ NoAnalytics

\* every message is analysed by _fallback_analysis: the collaborator is down
NextFallback ==
    \E o \in 1..MaxOffers, m \in Messages, d \in Deliveries :
        RecordTenantResponse(o, m, [kind |-> "failed", a |-> Unanswered,
                                    has_reply |-> FALSE], d)

SpecFallback == InitFallback /\ [][NextFallback]_vars

\* C31: under the keyword fallback the below-floor safety check never fires,
\* and an offer the fallback leaves countered has a proposed_rent at or above
\* the floor the message was checked against.
C31_FallbackKeepsTheFloor ==
    [][(out'.op = "analyse" /\ out'.collaborator = "failed") =>
          /\ ~out'.escalate
          /\ out'.response # "holding"
          /\ offers'[out'.offer].status = "countered" =>
                offers'[out'.offer].proposed_rent >= MinRent(offers[out'.offer])]_vars

\* ---- the floor over a negotiation (SpecReplies) ------------------------------------
\* the floor the first message against offer o was checked against: the floor of
\* the row as initiate_renewal stored it (the terms of a row never change)
FirstFloor(o) ==
    MinRent(InitiateRenewal(<<>>, offers[o].lease_id, offers[o].terms, Dispatched).offers[1])

\* C32: every message against an offer is checked against the same floor, the
\* one that applied to the first message, for offers with and without landlord
\* terms, and no sequence of messages leaves proposed_rent below that floor.
C32_FloorFixedForTheNegotiation ==
    /\ [][out'.op = "analyse" =>
            MinRent(offers[out'.offer]) = FirstFloor(out'.offer)]_vars
    /\ [](\A o \in OfferIds :
             offers[o].responded_at # NULL => offers[o].proposed_rent >= FirstFloor(o))

\* ---- the silent path: daily sweeps, no reply ----------------------------------------
\* the last day of the exploration of the silent path
Horizon == 21

\* a day boundary is crossed only after that day's sweep has run
DayPasses(d) ==
    /\ out.op = "sweep"
    /\ now + d <= Horizon
    /\ now' = now + d
    /\ out' = [EmptyOut EXCEPT !.op = "tick"]
    /\ UNCHANGED <<analytics, leases, offers, logs, feedback>>

\* the collaborators and the store of a sweep in which nothing fails; the
\* confidence score is what the scoring service returns, above the gate or below
SilentInputs == {in \in WorkflowInputs : in.fail \in {"none", "sim"}}
SuccessfulInputs == {in \in SilentInputs : in.fail = "none" /\ in.send_ok}

\* a sweep whose collaborators and store calls all succeed
RunWorkflowSucceeding ==
    \E ci \in [Candidates -> SuccessfulInputs] :
        RunWorkflow(ci, [o \in PendingSent(offers) |-> "none"])

NextSilent ==
    \/ \E d \in TickDays : DayPasses(d)
    \/ \E ci \in [Candidates -> SilentInputs], sf \in [PendingSent(offers) -> StepFails] :
          RunWorkflow(ci, sf)

\* time keeps passing, and a sweep in which every collaborator succeeds keeps
\* coming back
SpecSilent ==
    /\ Init
    /\ [][NextSilent]_vars
    /\ WF_vars(\E d \in TickDays : DayPasses(d))
    /\ SF_vars(RunWorkflowSucceeding)

\* C33: every offer the sweep created, whose occupant never replies, eventually
\* leaves pending, whether or not its proposal was sent (sent_at null included).
C33_SilentOffersLeavePending ==
    \A o \in 1..MaxOffers :
        (o \in OfferIds /\ offers[o].status = "pending")
            ~> (o \in OfferIds /\ offers[o].status # "pending")

\* ---- the feedback table over a negotiation (SpecNegotiation) --------------------------
\* the OutcomeFeedback rows of offer o
FeedbackOf(o) == {k \in 1..Len(feedback) : feedback[k].renewal_offer_id = o}

\* C34: after any sequence of tenant messages and landlord decisions an offer
\* has at most one OutcomeFeedback row, and the row's outcome agrees with the
\* offer's status: renewed with accepted, churned with rejected.
C34_OneFeedbackRowPerOffer ==
    \A o \in OfferIds :
        /\ Cardinality(FeedbackOf(o)) <= 1
        /\ \A k \in FeedbackOf(o) :
              /\ feedback[k].outcome = "renewed" => offers[o].status = "accepted"
              /\ feedback[k].outcome = "churned" => offers[o].status = "rejected"

\* ---- the order of the silent path (SpecWorkflow) ---------------------------------------
\* the re-marketing calls the step made for the lease of offer o
RelistCalls(o) ==
    {k \in 1..Len(out'.relisted) : out'.relisted[k] = offers[o].lease_id}

\* C35: a sweep makes the re-marketing call only for an offer with a recorded
\* follow-up, at most once per offer in one sweep, and never again in the sweep
\* that follows one in which it was made, also when the update to expired
\* failed after the call.
C35_RelistedOnceAfterFollowUp ==
    [][out'.op = "sweep" =>
          \A o \in OfferIds :
             /\ RelistCalls(o) # {} => offers[o].follow_up_count >= 1
             /\ Cardinality(RelistCalls(o)) <= 1
             /\ (out.op = "sweep" /\ In(offers[o].lease_id, out.relisted))
                   => RelistCalls(o) = {}]_vars

\* ---- the quoted rent (SpecInitiate) ---------------------------------------------------
\* C36: the rent of the 12-month option in the proposal an initiate call
\* delivered equals the proposed_rent of the offer row it stored, for every
\* recommended increase and landlord floor.
C36_QuotedRentIsStoredRent ==
    (/\ out.op = "initiate"
     /\ out.offer # 0
     /\ out.proposals # <<>>
     /\ out.proposals[1].delivered) =>
        out.proposals[1].monthly_rent = offers[out.offer].proposed_rent

\* ---- send_follow_up (SpecWorkflow) -----------------------------------------------------
\* the reminders of the step that reached the occupant of offer o
Delivered(o) ==
    {k \in 1..Len(out'.reminders) :
        out'.reminders[k].offer_id = o /\ out'.reminders[k].delivered}

\* C37: a step raises an offer's follow_up_count by the number of reminders it
\* delivered for the offer, and leaves follow_up_count and follow_up_sent_at
\* unchanged when it delivered none (no number, or a failed send).
C37_CountIsDeliveredReminders ==
    [][out'.op \in {"follow_up", "sweep"} =>
          \A o \in OfferIds :
             /\ offers'[o].follow_up_count =
                   offers[o].follow_up_count + Cardinality(Delivered(o))
             /\ Delivered(o) = {} =>
                   offers'[o].follow_up_sent_at = offers[o].follow_up_sent_at]_vars

\* C38: the manual follow-up on an offer that is not pending (accepted,
\* rejected, expired) or whose proposal was never sent (sent_at null) sends no
\* reminder and changes no field of any offer.
C38_RemindersOnlyForSentPending ==
    [][(/\ out'.op = "follow_up"
        /\ \/ offers[out'.offer].status # "pending"
           \/ offers[out'.offer].sent_at = NULL)
          => /\ out'.reminders = <<>>
             /\ offers' = offers]_vars

\* ---- the confidence gate on the payment count ----------------------------------------
\* the largest number of payment rows of a lease
MaxPaymentCount == 13

\* a lease row with n payments on record
RowWithPayments(n) ==
    [payments |-> [k \in 1..n |-> [status |-> "paid", paid_at |-> 10, due_date |-> 10]],
     maintenance_requests |-> 0, start_date |-> NULL, monthly_rent |-> CurrentRent]

\* the tenant of a lease with or without a WhatsApp number and an e-mail address
ConfidenceLeases == {[l \in LeaseIds |-> ContactRow(w, e, TRUE)] : w, e \in BOOLEAN}

InitConfidence ==
    /\ now = 0
    /\ leases \in ConfidenceLeases
    /\ offers = <<>>
    /\ logs = <<>>
    /\ feedback = <<>>
    /\ out = EmptyOut
    /\ ledger \in {[L1 |-> RowWithPayments(n)] : n \in {0, 4, 11}}
    /\ scores = <<>>
    /\ scenarios = <<>>
    /\ calls = <<>>

\* a payment row is added for the lease
RecordPayment(lease_id) ==
    /\ lease_id \in DOMAIN ledger
    /\ Len(ledger[lease_id].payments) < MaxPaymentCount
    /\ ledger' = [ledger EXCEPT ![lease_id].payments =
                      Append(@, [status |-> "paid", paid_at |-> 10, due_date |-> 10])]
    /\ out' = [EmptyOut EXCEPT !.op = "payment"]
    /\ UNCHANGED <<now, leases, offers, logs, feedback, scores, scenarios, calls>>

\* score["confidence_score"] of the lease: score_lease hands every payment row
\* of the lease to compute_renewal_probability
ConfidenceOf(lease_id) == confidence_score(ledger[lease_id].payments)

\* initiate_renewal with the confidence of the lease's own score
InitiateFromScore(lease_id, terms, inc, send_ok) ==
    /\ lease_id \in DOMAIN ledger
    /\ InitiateLeaseRenewal(lease_id, terms,
          [inc |-> inc, confidence |-> ConfidenceOf(lease_id) \div 100,
           send_ok |-> send_ok, fail |-> "none"])

NextConfidence ==
    \/ \E l \in LeaseIds : RecordPayment(l)
    \/ \E l \in LeaseIds, inc \in IncreasePcts, ok \in BOOLEAN :
          InitiateFromScore(l, NoTerms, inc, ok)

SpecConfidence == InitConfidence /\ [][NextConfidence]_vars

\* the number of payment rows of the lease of the offer the call stored
PaymentCount == Len(ledger[offers[out.offer].lease_id].payments)

\* the confidence of every lease is within [0.4, 1.0], 1.0 from 12 payments on,
\* and does not fall when a payment is added
ConfidenceRange ==
    /\ [](\A l \in DOMAIN ledger :
             /\ ConfidenceOf(l) >= 4000
             /\ ConfidenceOf(l) <= 10000
             /\ Len(ledger[l].payments) >= 12 => ConfidenceOf(l) = 10000)
    /\ [][\A l \in DOMAIN ledger : ConfidenceOf(l)' >= ConfidenceOf(l)]_vars

\* C39 (as stated): confidence lies in [0.4, 1.0], never falls as payments are
\* added and is 1.0 from 12 payments on; an initiate call sends a proposal
\* exactly when the lease has at least 5 payment rows.
C39_AutoSendFromFivePayments ==
    /\ ConfidenceRange
    /\ []((out.op = "initiate" /\ out.offer # 0) =>
             (out.proposals # <<>> <=> PaymentCount >= 5))

\* C39 (amended): the same range and monotonicity; an initiate call holds the
\* proposal back for approval exactly when the lease has fewer than 5 payment
\* rows, and it sends a proposal exactly when the lease has at least 5 and the
\* tenant has a WhatsApp number or an e-mail address.
C39_AutoSendFromFivePaymentsAmended ==
    /\ ConfidenceRange
    /\ []((out.op = "initiate" /\ out.offer # 0) =>
             /\ out.requires_approval <=> PaymentCount < 5
             /\ out.proposals # <<>> <=>
                   /\ PaymentCount >= 5
                   /\ \/ leases[offers[out.offer].lease_id].whatsapp
                      \/ leases[offers[out.offer].lease_id].email)

\* a lease with exactly 5 payments had its proposal delivered without approval
C39_Witness ==
    /\ out.op = "initiate"
    /\ out.offer # 0
    /\ PaymentCount = 5
    /\ ~out.requires_approval
    /\ out.sent
====
